---- MODULE Spec2Model ----
(***************************************************************************)
(* AgentScope Studio: the Reply-table migration (up / down), the database  *)
(* bootstrap, the avatar component and the chat transcript, as state       *)
(* machines.                                                               *)
(***************************************************************************)
EXTENDS Integers, Sequences, FiniteSets, TLC

VARIABLES
    \* ---- database (migration) ----
    message_table,      \* id -> [run_id, msg, replyId]
    reply_table,        \* replyId -> [replyRole, replyName, run_id, createdAt, finishedAt]
    replyTableExists,   \* reply_table is part of the schema
    fkReplyRun,         \* FK_reply_run exists on reply_table
    replyIdNullable,    \* message_table.replyId accepts NULL
    fkMessageReply,     \* FK_message_reply exists on message_table
    \* ---- one invocation of up / down ----
    pc,                 \* position inside up / down, "idle" between invocations
    replyMap,           \* the Map built by the scan, in insertion order
    nullReplyCount,
    inTx,               \* the runner wrapped the latest invocation in a transaction
    snapshot,           \* the database when the invocation began
    lastOp,             \* "none", "up" or "down": the latest invocation
    outcome,            \* how the latest invocation ended
    migrated,           \* an `up` has completed and no `down` has begun since
    startedMigrated,    \* `migrated` when the latest invocation began
    roundTrip,          \* the latest `up` follows a completed `down` of a migrated database
    beforeDown,         \* message_table when the latest `down` began
    \* ---- initializeDatabase ----
    bootPc,             \* position inside initializeDatabase
    calls,              \* the awaited calls started by this invocation, in order
    resolved,           \* those of them that have resolved, in order
    consoleLog,         \* what this invocation wrote to the console
    thrown,             \* the error an awaited call rejected with, "none" otherwise
    rejection,          \* the error initializeDatabase rejected with, "none" otherwise
    bootHistory,        \* how the earlier invocations ended
    \* ---- AsAvatar ----
    AVATAR_PATHS,       \* the avatar assets found when the module was loaded
    name,               \* props
    role,
    randomAvatar,
    seed,
    renderAvatar,       \* "absent", or what the callback returns for (name, role)
    AvatarComponent,    \* the state: "null" or the asset last loaded
    loads,              \* loadAvatarComponent promises in flight: their paths
    overtaken,          \* for each of them: a load started later has resolved already
    lastLoad,           \* the load that settled since the latest render, if any
    \* ---- AsChat ----
    replies,            \* the replies prop
    byReplyId,          \* state: the 'By reply Id' display mode
    isAtBottom,         \* state
    scrollTop,          \* the bubble list element
    clientHeight,
    scrollEventPending, \* a scroll event was fired and handleScroll has not run yet
    lastChatEvent,      \* the latest step of the component
    prevScrollTop,      \* scrollTop before the latest appended reply
    isReplying,         \* props
    allowInterrupt,
    onInterruptClick,   \* "absent" or "present"
    lastClick           \* the latest activation of the input's action button

dbVars == <<message_table, reply_table, replyTableExists, fkReplyRun,
            replyIdNullable, fkMessageReply>>
runVars == <<pc, replyMap, nullReplyCount, inTx, snapshot, lastOp, outcome,
             migrated, startedMigrated, roundTrip, beforeDown>>
migVars == <<dbVars, runVars>>
bootVars == <<bootPc, calls, resolved, consoleLog, thrown, rejection, bootHistory>>
avatarVars == <<AVATAR_PATHS, name, role, randomAvatar, seed, renderAvatar,
                AvatarComponent, loads, overtaken, lastLoad>>
listVars == <<replies, byReplyId, isAtBottom, scrollTop, clientHeight,
              scrollEventPending, lastChatEvent, prevScrollTop>>
inputVars == <<isReplying, allowInterrupt, onInterruptClick, lastClick>>
chatVars == <<listVars, inputVars>>
vars == <<migVars, bootVars, avatarVars, chatVars>>
otherThanMigration == <<bootVars, avatarVars, chatVars>>
otherThanBoot == <<migVars, avatarVars, chatVars>>
otherThanAvatar == <<migVars, bootVars, chatVars>>
otherThanChat == <<migVars, bootVars, avatarVars>>

---------------------------------------------------------------------------
(* Values *)

NULL == "<NULL>"            \* SQL NULL
Absent == ""                \* a JSON field that is missing or empty: falsy under ||

\* Strings that are compared with < and > are sequences of character codes.
T9 == <<57>>                \* "9"
T10 == <<49, 48>>           \* "10"
NowTs == <<50>>             \* new Date().toISOString(), here "2"

MaxMsgs == 2                \* rows of message_table before the migration

\* The ids a message row can have, in the order of ORDER BY id.
MsgIdOrder == <<"", "a", "b">>
MsgIds == {MsgIdOrder[i] : i \in 1..Len(MsgIdOrder)}
ReplyIdValues == {NULL, "", "a"}
RunIds == {"r1", "r2"}

BadJson == [wellFormed |-> FALSE, role |-> Absent, name |-> Absent, timestamp |-> <<>>]
MsgPayloads ==
    { BadJson,
      [wellFormed |-> TRUE, role |-> "user", name |-> "Bob", timestamp |-> T9],
      [wellFormed |-> TRUE, role |-> "assistant", name |-> Absent, timestamp |-> T9],
      [wellFormed |-> TRUE, role |-> "assistant", name |-> Absent, timestamp |-> T10],
      [wellFormed |-> TRUE, role |-> Absent, name |-> Absent, timestamp |-> <<>>] }

MessageRows == [run_id : RunIds, msg : MsgPayloads, replyId : ReplyIdValues]

---------------------------------------------------------------------------
(* The scan of up: lines 104-159 *)

\* JavaScript's a > b on strings: by code unit, a proper prefix is smaller.
RECURSIVE StrGt(_, _)
StrGt(a, b) ==
    IF a = <<>> THEN FALSE
    ELSE IF b = <<>> THEN TRUE
    ELSE IF Head(a) # Head(b) THEN Head(a) > Head(b)
    ELSE StrGt(Tail(a), Tail(b))

\* SELECT ... FROM message_table ORDER BY id
OrderedIds(tbl) == SelectSeq(MsgIdOrder, LAMBDA i : i \in DOMAIN tbl)

MsgRole(msgData) == IF msgData.role = Absent THEN "unknown" ELSE msgData.role
MsgName(msgData) == IF msgData.name = Absent THEN MsgRole(msgData) ELSE msgData.name
MsgTimestamp(msgData) == IF msgData.timestamp = <<>> THEN NowTs ELSE msgData.timestamp

HasReplyId(replyId) == replyId # NULL /\ replyId # ""

\* a variant that keys every reply by the message's own id
ReplyIdToUse_OwnId(id, replyId) == id

ReplyIdToUse(id, replyId) == IF HasReplyId(replyId) THEN replyId ELSE id

\* replyMap.has / replyMap.get: the position of the key, 0 when absent
MapIndex(map, key) ==
    IF \E k \in 1..Len(map) : map[k].replyId = key
    THEN CHOOSE k \in 1..Len(map) : map[k].replyId = key
    ELSE 0

NewReply(key, msgRole, msgName, runId, timestamp) ==
    [replyId |-> key, role |-> msgRole, name |-> msgName, runId |-> runId,
     createdAt |-> timestamp, finishedAt |-> timestamp]

\* a variant that overwrites role and name on every later message of the reply
UpdateExisting_LastWriteWins(existing, msgRole, msgName, timestamp) ==
    [existing EXCEPT !.finishedAt = IF StrGt(timestamp, @) THEN timestamp ELSE @,
                     !.role = msgRole, !.name = msgName]

\* a variant that never extends finishedAt
UpdateExisting_KeepFinishedAt(existing, msgRole, msgName, timestamp) == existing

\* the else branch of the loop body: a later message of a known reply
UpdateExisting(existing, msgRole, msgName, timestamp) ==
    IF StrGt(timestamp, existing.finishedAt)
    THEN [existing EXCEPT !.finishedAt = timestamp, !.role = msgRole, !.name = msgName]
    ELSE existing

\* one iteration of the loop over allMessages, after the payload was parsed
ScanMessage(map, id, message) ==
    LET msgRole == MsgRole(message.msg)
        msgName == MsgName(message.msg)
        timestamp == MsgTimestamp(message.msg)
        key == ReplyIdToUse(id, message.replyId)
        k == MapIndex(map, key)
    IN  IF k = 0
        THEN Append(map, NewReply(key, msgRole, msgName, message.run_id, timestamp))
        ELSE [map EXCEPT ![k] = UpdateExisting(map[k], msgRole, msgName, timestamp)]

\* the whole loop; threw = JSON.parse failed on some message
RECURSIVE ScanMessages(_, _, _, _)
ScanMessages(tbl, ids, map, cnt) ==
    IF ids = <<>> THEN [threw |-> FALSE, replyMap |-> map, nullReplyCount |-> cnt]
    ELSE LET id == Head(ids)
             message == tbl[id]
         IN  IF ~message.msg.wellFormed
             THEN [threw |-> TRUE, replyMap |-> map, nullReplyCount |-> cnt]
             ELSE ScanMessages(tbl, Tail(ids), ScanMessage(map, id, message),
                               IF HasReplyId(message.replyId) THEN cnt ELSE cnt + 1)

\* a variant whose INSERT replaces a row that is already present
RECURSIVE InsertReplies_OrReplace(_, _)
InsertReplies_OrReplace(tbl, map) ==
    IF map = <<>> THEN [threw |-> FALSE, reply_table |-> tbl]
    ELSE LET reply == Head(map)
             row == [replyRole |-> reply.role, replyName |-> reply.name,
                     run_id |-> reply.runId, createdAt |-> reply.createdAt,
                     finishedAt |-> reply.finishedAt]
         IN  InsertReplies_OrReplace((reply.replyId :> row) @@ tbl, Tail(map))

\* the INSERT loop: stops at the first reply whose primary key is already present
RECURSIVE InsertReplies(_, _)
InsertReplies(tbl, map) ==
    IF map = <<>> THEN [threw |-> FALSE, reply_table |-> tbl]
    ELSE LET reply == Head(map)
         IN  IF reply.replyId \in DOMAIN tbl
             THEN [threw |-> TRUE, reply_table |-> tbl]
             ELSE InsertReplies(
                    tbl @@ (reply.replyId :>
                              [replyRole |-> reply.role, replyName |-> reply.name,
                               run_id |-> reply.runId, createdAt |-> reply.createdAt,
                               finishedAt |-> reply.finishedAt]),
                    Tail(map))

\* UPDATE message_table SET replyId = id WHERE replyId IS NULL OR replyId = ''
BackfillReplyIds(tbl) ==
    [id \in DOMAIN tbl |->
        IF tbl[id].replyId = NULL \/ tbl[id].replyId = ""
        THEN [tbl[id] EXCEPT !.replyId = id]
        ELSE tbl[id]]

\* a variant of the integrity check that counts NULL only
CountEmptyReplyIds_NullOnly(tbl) ==
    Cardinality({id \in DOMAIN tbl : tbl[id].replyId = NULL})

\* SELECT COUNT(*) FROM message_table WHERE replyId IS NULL OR replyId = ''
CountEmptyReplyIds(tbl) ==
    Cardinality({id \in DOMAIN tbl : tbl[id].replyId = NULL \/ tbl[id].replyId = ""})

\* a variant of down that leaves the replyId values in place
NullOutReplyIds_Keep(tbl) == tbl

\* UPDATE message_table SET replyId = NULL
NullOutReplyIds(tbl) == [id \in DOMAIN tbl |-> [tbl[id] EXCEPT !.replyId = NULL]]

---------------------------------------------------------------------------
(* initializeDatabase: Run.ts lines 54-97 *)

MaxBoots == 2               \* invocations of initializeDatabase
Errors == {"E1", "E2", "E3"}

BootSteps == <<"dataSource.initialize", "RunDao.updateRunStatusAtBeginning",
               "InputRequestDao.updateInputRequests">>

BootIdle ==
    /\ bootPc = "idle"
    /\ calls = <<>>
    /\ resolved = <<>>
    /\ consoleLog = <<>>
    /\ thrown = "none"
    /\ rejection = "none"
    /\ bootHistory = <<>>

\* a variant of the catch block that logs the error and does not throw it again
Catch_Swallow(error) ==
    /\ thrown' = error
    /\ consoleLog' = Append(consoleLog, <<"error", "Error initializing database", error>>)
    /\ rejection' = "none"
    /\ bootPc' = "settled"
    /\ UNCHANGED <<calls, resolved, bootHistory>>

\* catch (error) { console.error(...); throw error; }
Catch(error) ==
    /\ thrown' = error
    /\ consoleLog' = Append(consoleLog, <<"error", "Error initializing database", error>>)
    /\ rejection' = error
    /\ bootPc' = "settled"
    /\ UNCHANGED <<calls, resolved, bootHistory>>

\* initializeDatabase is called: the options are built and dataSource.initialize() is awaited
InitializeDatabase ==
    /\ bootPc \in {"idle", "settled"}
    /\ Len(bootHistory) + (IF bootPc = "settled" THEN 1 ELSE 0) < MaxBoots
    /\ bootHistory' = IF bootPc = "settled"
                      THEN Append(bootHistory, <<calls, rejection>>)
                      ELSE bootHistory
    /\ bootPc' = "await_initialize"
    /\ calls' = <<BootSteps[1]>>
    /\ resolved' = <<>>
    /\ consoleLog' = <<>>
    /\ thrown' = "none"
    /\ rejection' = "none"
    /\ UNCHANGED otherThanBoot

\* dataSource.initialize() resolves: two log lines, then updateRunStatusAtBeginning is awaited
InitializeResolves ==
    /\ bootPc = "await_initialize"
    /\ resolved' = Append(resolved, BootSteps[1])
    /\ consoleLog' = consoleLog \o <<<<"log", "Database initialized with options", "-">>,
                                     <<"log", "Refresh the database ...", "-">>>>
    /\ calls' = Append(calls, BootSteps[2])
    /\ bootPc' = "await_updateRunStatus"
    /\ UNCHANGED <<thrown, rejection, bootHistory>>
    /\ UNCHANGED otherThanBoot

InitializeRejects ==
    /\ bootPc = "await_initialize"
    /\ \E error \in Errors : Catch(error)
    /\ UNCHANGED otherThanBoot

\* updateRunStatusAtBeginning resolves: updateInputRequests is awaited
UpdateRunStatusResolves ==
    /\ bootPc = "await_updateRunStatus"
    /\ resolved' = Append(resolved, BootSteps[2])
    /\ calls' = Append(calls, BootSteps[3])
    /\ bootPc' = "await_updateInputRequests"
    /\ UNCHANGED <<consoleLog, thrown, rejection, bootHistory>>
    /\ UNCHANGED otherThanBoot

UpdateRunStatusRejects ==
    /\ bootPc = "await_updateRunStatus"
    /\ \E error \in Errors : Catch(error)
    /\ UNCHANGED otherThanBoot

\* updateInputRequests resolves: 'Done' is logged and initializeDatabase resolves
UpdateInputRequestsResolves ==
    /\ bootPc = "await_updateInputRequests"
    /\ resolved' = Append(resolved, BootSteps[3])
    /\ consoleLog' = Append(consoleLog, <<"log", "Done", "-">>)
    /\ bootPc' = "settled"
    /\ UNCHANGED <<calls, thrown, rejection, bootHistory>>
    /\ UNCHANGED otherThanBoot

UpdateInputRequestsRejects ==
    /\ bootPc = "await_updateInputRequests"
    /\ \E error \in Errors : Catch(error)
    /\ UNCHANGED otherThanBoot

NextBoot ==
    \/ InitializeDatabase
    \/ InitializeResolves
    \/ InitializeRejects
    \/ UpdateRunStatusResolves
    \/ UpdateRunStatusRejects
    \/ UpdateInputRequestsResolves
    \/ UpdateInputRequestsRejects


---------------------------------------------------------------------------
(* AsAvatar: avatar.tsx *)

MaxLoads == 2               \* avatar loads in flight at one time

\* 32-bit integers are kept as two 16-bit halves, so that h*31 + c wraps as in the code
Half == 65536
Word(hi, lo) == [hi |-> hi, lo |-> lo]

\* the two's complement of a word: 2^32 - w
Negate(w) ==
    LET lo == (Half - w.lo) % Half
        borrow == IF w.lo = 0 THEN 0 ELSE 1
    IN  Word((Half - w.hi - borrow + Half) % Half, lo)

\* ToInt32 of an integer of -2^31 .. 2^31 - 1: a negative n has the bits of
\* the complement of -(n + 1)
ToWord(n) ==
    IF n >= 0 THEN Word(n \div Half, n % Half)
    ELSE Word(Half - 1 - ((-(n + 1)) \div Half), Half - 1 - ((-(n + 1)) % Half))

IsNegative(w) == w.hi >= 32768

\* hash << 5
ShiftLeft5(w) ==
    LET lo == w.lo * 32
    IN  Word((w.hi * 32 + (lo \div Half)) % Half, lo % Half)

\* a - b, to 32 bits
Sub(a, b) ==
    LET borrow == IF a.lo < b.lo THEN 1 ELSE 0
    IN  Word((a.hi - b.hi - borrow + 2 * Half) % Half, (a.lo - b.lo + Half) % Half)

\* w + char, to 32 bits
AddChar(w, char) ==
    LET lo == w.lo + char
    IN  Word((w.hi + (lo \div Half)) % Half, lo % Half)

\* hash = (hash << 5) - hash + char; hash = hash & hash
HashStep(w, char) == AddChar(Sub(ShiftLeft5(w), w), char)

RECURSIVE HashLoop(_, _)
HashLoop(w, str) ==
    IF str = <<>> THEN w ELSE HashLoop(HashStep(w, Head(str)), Tail(str))

\* a variant that returns the folded hash without Math.abs
hashString_Signed(str, seedValue) == HashLoop(ToWord(seedValue), str)

\* hashString: Math.abs of the folded hash, as a word holding the magnitude
hashString(str, seedValue) ==
    LET w == HashLoop(ToWord(seedValue), str)
    IN  IF IsNegative(w) THEN Negate(w) ELSE w

\* hash % n for a magnitude held as a word
WordMod(w, n) == ((w.hi % n) * (Half % n) + w.lo) % n

getAvatarPathByName(paths, nameValue, seedValue) ==
    IF Len(paths) = 0 THEN ""
    ELSE paths[WordMod(hashString(nameValue, seedValue), Len(paths)) + 1]

\* String.prototype.toLowerCase on the roles that occur
toLowerCase(str) ==
    CASE str = "System" -> "system"
      [] str = "SYSTEM" -> "system"
      [] str = "User" -> "user"
      [] OTHER -> str

\* toUpperCase of one code unit (ASCII letters)
UpperChar(c) == IF c >= 97 /\ c <= 122 THEN c - 32 ELSE c

\* name.slice(0, 2).toUpperCase()
Initials(str) ==
    LET n == IF Len(str) < 2 THEN Len(str) ELSE 2
    IN  [i \in 1..n |-> UpperChar(str[i])]

\* what `if (customAvatar)` lets through: JavaScript truthiness
Truthy(node) == node \notin {"absent", "null", "false", "zero", "emptyString"}

\* the element AsAvatar puts inside <Avatar>: lines 123-143
Displayed(nameValue, roleValue, random, custom, component) ==
    IF Truthy(custom)
    THEN [kind |-> "custom", node |-> custom, text |-> <<>>]
    ELSE IF toLowerCase(roleValue) = "system"
    THEN [kind |-> "system", node |-> "SystemAvatar", text |-> <<>>]
    ELSE IF random /\ component # "null"
    THEN [kind |-> "random", node |-> component, text |-> <<>>]
    ELSE [kind |-> "initials", node |-> "div", text |-> Initials(nameValue)]

avatarComponent == Displayed(name, role, randomAvatar, renderAvatar, AvatarComponent)

\* the effect of lines 108-121: the loads it adds to those in flight
EffectLoads(paths, nameValue, roleValue, random, seedValue) ==
    IF random /\ toLowerCase(roleValue) # "system"
       /\ getAvatarPathByName(paths, nameValue, seedValue) # ""
    THEN <<getAvatarPathByName(paths, nameValue, seedValue)>>
    ELSE <<>>

AvatarPathLists == { <<>>, <<"fairytale/001-frog", "fairytale/002-fox", "robot/001-bot">> }
Names == { <<>>, <<98, 111, 98>>, <<65>> }          \* "", "bob", "A"
Roles == { "system", "System", "user" }
Seeds == { 14, 2147483647, -7, -2147483647 - 1 }
RenderResults == { "absent", "null", "false", "zero", "emptyString", "element" }

NoLoad == [event |-> "none", path |-> "", overtaken |-> FALSE]

AvatarIdle ==
    /\ AVATAR_PATHS = <<>>
    /\ name = <<>>
    /\ role = "user"
    /\ randomAvatar = FALSE
    /\ seed = 14
    /\ renderAvatar = "absent"
    /\ AvatarComponent = "null"
    /\ loads = <<>>
    /\ overtaken = <<>>
    /\ lastLoad = NoLoad

\* the component is mounted: first render, then the effect
AvatarMounted ==
    /\ AVATAR_PATHS \in AvatarPathLists
    /\ name \in Names
    /\ role \in Roles
    /\ randomAvatar \in BOOLEAN
    /\ seed \in Seeds
    /\ renderAvatar \in RenderResults
    /\ AvatarComponent = "null"
    /\ loads = EffectLoads(AVATAR_PATHS, name, role, randomAvatar, seed)
    /\ overtaken = [k \in 1..Len(loads) |-> FALSE]
    /\ lastLoad = NoLoad

\* the parent renders AsAvatar with new props; the effect runs when a dependency changed
Rerender(n, r, ra, sd, cb) ==
    /\ <<n, r, ra, sd, cb>> # <<name, role, randomAvatar, seed, renderAvatar>>
    /\ name' = n
    /\ role' = r
    /\ randomAvatar' = ra
    /\ seed' = sd
    /\ renderAvatar' = cb
    /\ IF <<n, r, ra, sd>> # <<name, role, randomAvatar, seed>>
       THEN /\ Len(loads) + Len(EffectLoads(AVATAR_PATHS, n, r, ra, sd)) <= MaxLoads
            /\ loads' = loads \o EffectLoads(AVATAR_PATHS, n, r, ra, sd)
       ELSE loads' = loads
    /\ overtaken' = [k \in 1..Len(loads') |-> IF k <= Len(loads) THEN overtaken[k] ELSE FALSE]
    /\ lastLoad' = NoLoad
    /\ UNCHANGED <<AVATAR_PATHS, AvatarComponent>>
    /\ UNCHANGED otherThanAvatar

ChangeName == \E n \in Names : Rerender(n, role, randomAvatar, seed, renderAvatar)
ChangeRole == \E r \in Roles : Rerender(name, r, randomAvatar, seed, renderAvatar)
ChangeRandomAvatar == Rerender(name, role, ~randomAvatar, seed, renderAvatar)
ChangeSeed == \E sd \in Seeds : Rerender(name, role, randomAvatar, sd, renderAvatar)
ChangeRenderAvatar == \E cb \in RenderResults : Rerender(name, role, randomAvatar, seed, cb)

RemoveAt(seq, i) == SubSeq(seq, 1, i - 1) \o SubSeq(seq, i + 1, Len(seq))

\* a variant that drops the result of a load that is not the one for the current props
LoadResolves_Guarded ==
    \E i \in 1..Len(loads) :
        /\ AvatarComponent' = IF loads[i] = getAvatarPathByName(AVATAR_PATHS, name, seed)
                               THEN loads[i] ELSE AvatarComponent
        /\ loads' = RemoveAt(loads, i)
        /\ overtaken' = RemoveAt([k \in 1..Len(loads) |-> k < i \/ overtaken[k]], i)
        /\ lastLoad' = [event |-> "resolved", path |-> loads[i], overtaken |-> overtaken[i]]
        /\ UNCHANGED <<AVATAR_PATHS, name, role, randomAvatar, seed, renderAvatar>>
        /\ UNCHANGED otherThanAvatar

\* a load resolves with its component: setAvatarComponent
LoadResolves ==
    \E i \in 1..Len(loads) :
        /\ AvatarComponent' = loads[i]
        /\ loads' = RemoveAt(loads, i)
        /\ overtaken' = RemoveAt([k \in 1..Len(loads) |-> k < i \/ overtaken[k]], i)
        /\ lastLoad' = [event |-> "resolved", path |-> loads[i], overtaken |-> overtaken[i]]
        /\ UNCHANGED <<AVATAR_PATHS, name, role, randomAvatar, seed, renderAvatar>>
        /\ UNCHANGED otherThanAvatar

\* a load rejects: console.error, the state is left alone
LoadRejects ==
    \E i \in 1..Len(loads) :
        /\ loads' = RemoveAt(loads, i)
        /\ overtaken' = RemoveAt(overtaken, i)
        /\ lastLoad' = [event |-> "rejected", path |-> loads[i], overtaken |-> overtaken[i]]
        /\ UNCHANGED <<AVATAR_PATHS, name, role, randomAvatar, seed, renderAvatar,
                       AvatarComponent>>
        /\ UNCHANGED otherThanAvatar

NextAvatar ==
    \/ ChangeName
    \/ ChangeRole
    \/ ChangeRandomAvatar
    \/ ChangeSeed
    \/ ChangeRenderAvatar
    \/ LoadResolves
    \/ LoadRejects

---------------------------------------------------------------------------
(* AsChat: the transcript and its scrolling *)

MaxReplies == 2             \* replies appended to the transcript

Message(id, msgName, msgRole, timestamp) ==
    [id |-> id, name |-> msgName, role |-> msgRole, timestamp |-> timestamp]

\* the replies a caller hands in
IncomingReplies ==
    { [replyId |-> "r1", replyName |-> "Bob", replyRole |-> "user",
       createdAt |-> 1, finishedAt |-> 1,
       messages |-> <<Message("m1", "Bob", "user", 1)>>],
      [replyId |-> "r2", replyName |-> "Friday", replyRole |-> "assistant",
       createdAt |-> 2, finishedAt |-> 3,
       messages |-> <<Message("m2", "Friday", "assistant", 2),
                      Message("m3", "tool", "system", 3)>>],
      [replyId |-> "r3", replyName |-> "Friday", replyRole |-> "assistant",
       createdAt |-> 4, finishedAt |-> 4,
       messages |-> <<>>] }

\* the entry the flattened mode makes of one message: lines 120-127
FlatReply(msg) ==
    [replyId |-> msg.id, replyName |-> msg.name, replyRole |-> msg.role,
     createdAt |-> msg.timestamp, finishedAt |-> msg.timestamp, messages |-> <<msg>>]

\* a variant of the flattened mode that keeps the first message of each reply only
RECURSIVE Flatten_FirstMessageOnly(_)
Flatten_FirstMessageOnly(list) ==
    IF list = <<>> THEN <<>>
    ELSE (IF Head(list).messages = <<>> THEN <<>>
          ELSE <<FlatReply(Head(list).messages[1])>>)
         \o Flatten_FirstMessageOnly(Tail(list))

RECURSIVE Flatten(_)
Flatten(list) ==
    IF list = <<>> THEN <<>>
    ELSE [i \in 1..Len(Head(list).messages) |-> FlatReply(Head(list).messages[i])]
         \o Flatten(Tail(list))

\* the useMemo of lines 110-131
organizedReplies(list, byId) ==
    IF Len(list) = 0 THEN <<>>
    ELSE IF byId THEN list
    ELSE Flatten(list)

\* the height the bubbles take: 25 px for a bubble's head, 50 px for each message
RECURSIVE ContentHeight(_)
ContentHeight(list) ==
    IF list = <<>> THEN 0
    ELSE 25 + 50 * Len(Head(list).messages) + ContentHeight(Tail(list))

\* the element's scrollHeight: its content, and never less than its clientHeight
ScrollHeight(list, byId, client) ==
    IF ContentHeight(organizedReplies(list, byId)) > client
    THEN ContentHeight(organizedReplies(list, byId))
    ELSE client

scrollHeight == ScrollHeight(replies, byReplyId, clientHeight)

\* what scrollTop reads after an assignment: the element keeps it within its range
ClampScroll(value, height, client) ==
    IF value < 0 THEN 0
    ELSE IF value > height - client THEN height - client
    ELSE value

\* a variant of handleScroll's test that counts exactly 50 px as at the bottom
AtBottom_Inclusive(top, height, client) == height - top - client <= 50

\* a variant of the effect that scrolls whether or not the user is at the bottom
AutoScroll_Always(top, height, client, atBottom) == ClampScroll(height, height, client)

\* the effect of lines 134-139: scrollTop after it ran
AutoScroll(top, height, client, atBottom) ==
    IF atBottom THEN ClampScroll(height, height, client) ELSE top

\* handleScroll's test, lines 146-149
AtBottom(top, height, client) == height - top - client < 50

ChatIdle ==
    /\ replies = <<>>
    /\ byReplyId = TRUE
    /\ isAtBottom = TRUE
    /\ scrollTop = 0
    /\ clientHeight = 100
    /\ scrollEventPending = FALSE
    /\ lastChatEvent = "mount"
    /\ prevScrollTop = 0
    /\ isReplying = FALSE
    /\ allowInterrupt = FALSE
    /\ onInterruptClick = "absent"
    /\ lastClick = [actionType |-> "none", called |-> "none"]

\* the replies prop changes: one reply is appended, the list is rendered, the effect runs
AppendReply ==
    \E reply \in IncomingReplies :
        /\ Len(replies) < MaxReplies
        /\ replies' = Append(replies, reply)
        /\ scrollTop' = AutoScroll(scrollTop,
                                   ScrollHeight(replies', byReplyId, clientHeight),
                                   clientHeight, isAtBottom)
        /\ scrollEventPending' = (scrollEventPending \/ scrollTop' # scrollTop)
        /\ lastChatEvent' = "append"
        /\ prevScrollTop' = scrollTop
        /\ UNCHANGED <<byReplyId, isAtBottom, clientHeight>>
        /\ UNCHANGED inputVars
        /\ UNCHANGED otherThanChat

\* the 'By reply Id' item is toggled: the list is laid out again, the effect runs
ToggleByReplyId ==
    /\ byReplyId' = ~byReplyId
    /\ LET height == ScrollHeight(replies, byReplyId', clientHeight)
       IN  scrollTop' = AutoScroll(ClampScroll(scrollTop, height, clientHeight),
                                   height, clientHeight, isAtBottom)
    /\ scrollEventPending' = (scrollEventPending \/ scrollTop' # scrollTop)
    /\ lastChatEvent' = "toggle"
    /\ prevScrollTop' = 0
    /\ UNCHANGED <<replies, isAtBottom, clientHeight>>
    /\ UNCHANGED inputVars
    /\ UNCHANGED otherThanChat

\* the user scrolls the list, in steps of 25 px
UserScroll ==
    \E k \in 0..((scrollHeight - clientHeight) \div 25) :
        /\ 25 * k # scrollTop
        /\ scrollTop' = 25 * k
        /\ scrollEventPending' = TRUE
        /\ lastChatEvent' = "scroll"
        /\ prevScrollTop' = 0
        /\ UNCHANGED <<replies, byReplyId, isAtBottom, clientHeight>>
        /\ UNCHANGED inputVars
        /\ UNCHANGED otherThanChat

\* handleScroll runs; when isAtBottom changes the effect runs again
HandleScroll ==
    /\ scrollEventPending
    /\ isAtBottom' = AtBottom(scrollTop, scrollHeight, clientHeight)
    /\ scrollTop' = IF isAtBottom' # isAtBottom
                    THEN AutoScroll(scrollTop, scrollHeight, clientHeight, isAtBottom')
                    ELSE scrollTop
    /\ scrollEventPending' = (scrollTop' # scrollTop)
    /\ lastChatEvent' = "handleScroll"
    /\ prevScrollTop' = 0
    /\ UNCHANGED <<replies, byReplyId, clientHeight>>
    /\ UNCHANGED inputVars
    /\ UNCHANGED otherThanChat

\* the class that hides the scroll-to-bottom button: line 178
ScrollButtonClass(atBottom) == IF atBottom THEN "hidden" ELSE ""

\* the scroll-to-bottom button is clicked, which it can be while it is not hidden
ClickScrollToBottom ==
    /\ ScrollButtonClass(isAtBottom) # "hidden"
    /\ scrollTop' = ClampScroll(scrollHeight, scrollHeight, clientHeight)
    /\ scrollEventPending' = (scrollEventPending \/ scrollTop' # scrollTop)
    /\ lastChatEvent' = "button"
    /\ prevScrollTop' = 0
    /\ UNCHANGED <<replies, byReplyId, isAtBottom, clientHeight>>
    /\ UNCHANGED inputVars
    /\ UNCHANGED otherThanChat

\* the actionType handed to AsTextarea: lines 245-247
ActionType(replying, allow) == IF replying /\ allow THEN "interrupt" ELSE "send"

\* onActionClick: lines 248-254
OnActionClick(replying, allow, interrupt) ==
    IF replying /\ allow /\ interrupt # "absent"
    THEN "onInterruptClick"
    ELSE "onSendClick"

\* the parent renders AsChat with other props; the list and the effect's
\* dependencies are the same, so the effect does not run
ChangeIsReplying ==
    /\ isReplying' = ~isReplying
    /\ UNCHANGED <<allowInterrupt, onInterruptClick, lastClick>>
    /\ UNCHANGED listVars
    /\ UNCHANGED otherThanChat

ChangeAllowInterrupt ==
    /\ allowInterrupt' = ~allowInterrupt
    /\ UNCHANGED <<isReplying, onInterruptClick, lastClick>>
    /\ UNCHANGED listVars
    /\ UNCHANGED otherThanChat

ChangeOnInterruptClick ==
    /\ onInterruptClick' = IF onInterruptClick = "absent" THEN "present" ELSE "absent"
    /\ UNCHANGED <<isReplying, allowInterrupt, lastClick>>
    /\ UNCHANGED listVars
    /\ UNCHANGED otherThanChat

\* the input's action button is activated
ActionClick ==
    /\ lastClick' = [actionType |-> ActionType(isReplying, allowInterrupt),
                     called |-> OnActionClick(isReplying, allowInterrupt, onInterruptClick)]
    /\ UNCHANGED <<isReplying, allowInterrupt, onInterruptClick>>
    /\ UNCHANGED listVars
    /\ UNCHANGED otherThanChat

NextChat ==
    \/ AppendReply
    \/ ToggleByReplyId
    \/ UserScroll
    \/ HandleScroll
    \/ ClickScrollToBottom
    \/ ChangeIsReplying
    \/ ChangeAllowInterrupt
    \/ ChangeOnInterruptClick
    \/ ActionClick

---------------------------------------------------------------------------
(* The database and the migration runner *)

Database ==
    [message_table |-> message_table, reply_table |-> reply_table,
     replyTableExists |-> replyTableExists, fkReplyRun |-> fkReplyRun,
     replyIdNullable |-> replyIdNullable, fkMessageReply |-> fkMessageReply]

SetDatabase(db) ==
    /\ message_table' = db.message_table
    /\ reply_table' = db.reply_table
    /\ replyTableExists' = db.replyTableExists
    /\ fkReplyRun' = db.fkReplyRun
    /\ replyIdNullable' = db.replyIdNullable
    /\ fkMessageReply' = db.fkMessageReply

\* An error leaves up: the statements already executed stay, unless the runner
\* wrapped the migration in a transaction, which is then rolled back.
Throw(err, db) ==
    /\ SetDatabase(IF inTx THEN snapshot ELSE db)
    /\ pc' = "idle"
    /\ outcome' = err
    /\ replyMap' = <<>>
    /\ nullReplyCount' = 0
    /\ UNCHANGED <<inTx, snapshot, lastOp, migrated, startedMigrated, roundTrip, beforeDown>>
    /\ UNCHANGED otherThanMigration

Step(next, db) ==
    /\ SetDatabase(db)
    /\ pc' = next
    /\ UNCHANGED <<replyMap, nullReplyCount, inTx, snapshot, lastOp, outcome,
                   migrated, startedMigrated, roundTrip, beforeDown>>
    /\ UNCHANGED otherThanMigration

\* a database that was never migrated, holding the given message rows
Unmigrated(tbl) ==
    /\ message_table = tbl
    /\ reply_table = <<>>
    /\ replyTableExists = FALSE
    /\ fkReplyRun = FALSE
    /\ replyIdNullable = TRUE
    /\ fkMessageReply = FALSE
    /\ pc = "idle"
    /\ replyMap = <<>>
    /\ nullReplyCount = 0
    /\ inTx = FALSE
    /\ snapshot = Database
    /\ lastOp = "none"
    /\ outcome = "none"
    /\ migrated = FALSE
    /\ startedMigrated = FALSE
    /\ roundTrip = FALSE
    /\ beforeDown = <<>>

\* up is entered and createTable('reply_table', ifNotExists = true) runs.
\* Whether the runner wraps the migration in a transaction is part of the
\* connection options that initializeDatabase passes on (migrationsRun with
\* ...databaseConfig), so either case can occur.
UpCreateTable ==
    /\ pc = "idle"
    /\ \E tx \in BOOLEAN : inTx' = tx
    /\ snapshot' = Database
    /\ lastOp' = "up"
    /\ outcome' = "running"
    /\ startedMigrated' = migrated
    /\ roundTrip' = (lastOp = "down" /\ outcome = "ok" /\ startedMigrated)
    /\ replyTableExists' = TRUE
    /\ pc' = "up_createReplyFk"
    /\ UNCHANGED <<message_table, reply_table, fkReplyRun, replyIdNullable,
                   fkMessageReply, replyMap, nullReplyCount, migrated, beforeDown>>
    /\ UNCHANGED otherThanMigration

\* createForeignKey('reply_table', FK_reply_run)
UpCreateReplyFk ==
    /\ pc = "up_createReplyFk"
    /\ \/ Step("up_scan", [Database EXCEPT !.fkReplyRun = TRUE])
       \/ /\ fkReplyRun      \* the engine may reject a second constraint of that name
          /\ Throw("fk_exists", Database)

\* a variant that inserts each reply as soon as the scan has seen it
UpScan_InsertWhileScanning ==
    /\ pc = "up_scan"
    /\ LET r == ScanMessages(message_table, OrderedIds(message_table), <<>>, 0)
           ins == InsertReplies(reply_table, r.replyMap)
       IN  IF r.threw
           THEN Throw("parse_error", [Database EXCEPT !.reply_table = ins.reply_table])
           ELSE /\ replyMap' = <<>>
                /\ nullReplyCount' = r.nullReplyCount
                /\ pc' = "up_insert"
                /\ SetDatabase([Database EXCEPT !.reply_table = ins.reply_table])
                /\ UNCHANGED <<inTx, snapshot, lastOp, outcome, migrated,
                               startedMigrated, roundTrip, beforeDown>>
                /\ UNCHANGED otherThanMigration

\* SELECT all messages and build replyMap
UpScan ==
    /\ pc = "up_scan"
    /\ LET r == ScanMessages(message_table, OrderedIds(message_table), <<>>, 0)
       IN  IF r.threw
           THEN Throw("parse_error", Database)
           ELSE /\ replyMap' = r.replyMap
                /\ nullReplyCount' = r.nullReplyCount
                /\ pc' = "up_insert"
                /\ UNCHANGED <<dbVars, inTx, snapshot, lastOp, outcome, migrated,
                               startedMigrated, roundTrip, beforeDown>>
                /\ UNCHANGED otherThanMigration

\* INSERT INTO reply_table, one statement per entry of replyMap
UpInsert ==
    /\ pc = "up_insert"
    /\ LET r == InsertReplies(reply_table, replyMap)
       IN  IF r.threw
           THEN Throw("pk_conflict", [Database EXCEPT !.reply_table = r.reply_table])
           ELSE Step("up_update", [Database EXCEPT !.reply_table = r.reply_table])

\* if (nullReplyCount > 0) UPDATE message_table SET replyId = id ...
UpUpdate ==
    /\ pc = "up_update"
    /\ Step("up_check",
            IF nullReplyCount > 0
            THEN [Database EXCEPT !.message_table = BackfillReplyIds(message_table)]
            ELSE Database)

\* a variant of the integrity check that goes on whatever the count is
UpCheck_NoThrow ==
    /\ pc = "up_check"
    /\ Step("up_changeColumn", Database)

\* the integrity check
UpCheck ==
    /\ pc = "up_check"
    /\ IF CountEmptyReplyIds(message_table) > 0
       THEN Throw("integrity_error", Database)
       ELSE Step("up_changeColumn", Database)

\* changeColumn(replyId, isNullable: false)
UpChangeColumn ==
    /\ pc = "up_changeColumn"
    /\ Step("up_createMessageFk", [Database EXCEPT !.replyIdNullable = FALSE])

\* createForeignKey('message_table', FK_message_reply); up returns
UpCreateMessageFk ==
    /\ pc = "up_createMessageFk"
    /\ \/ /\ SetDatabase([Database EXCEPT !.fkMessageReply = TRUE])
          /\ pc' = "idle"
          /\ outcome' = "ok"
          /\ migrated' = TRUE
          /\ replyMap' = <<>>
          /\ nullReplyCount' = 0
          /\ UNCHANGED <<inTx, snapshot, lastOp, startedMigrated, roundTrip, beforeDown>>
          /\ UNCHANGED otherThanMigration
       \/ /\ fkMessageReply
          /\ Throw("fk_exists", Database)

\* down is entered; the foreign key on replyId is dropped when there is one
DownDropFk ==
    /\ pc = "idle"
    /\ \E tx \in BOOLEAN : inTx' = tx
    /\ snapshot' = Database
    /\ lastOp' = "down"
    /\ outcome' = "running"
    /\ startedMigrated' = migrated
    /\ migrated' = FALSE
    /\ roundTrip' = FALSE
    /\ beforeDown' = message_table
    /\ fkMessageReply' = FALSE
    /\ pc' = "down_changeColumn"
    /\ UNCHANGED <<message_table, reply_table, replyTableExists, fkReplyRun,
                   replyIdNullable, replyMap, nullReplyCount>>
    /\ UNCHANGED otherThanMigration

\* changeColumn(replyId, isNullable: true)
DownChangeColumn ==
    /\ pc = "down_changeColumn"
    /\ Step("down_nullOut", [Database EXCEPT !.replyIdNullable = TRUE])

\* UPDATE message_table SET replyId = NULL
DownNullOut ==
    /\ pc = "down_nullOut"
    /\ Step("down_dropTable",
            [Database EXCEPT !.message_table = NullOutReplyIds(message_table)])

\* a variant of the last step of down that leaves reply_table in place
DownDropTable_Keep ==
    /\ pc = "down_dropTable"
    /\ SetDatabase(Database)
    /\ pc' = "idle"
    /\ outcome' = "ok"
    /\ UNCHANGED <<replyMap, nullReplyCount, inTx, snapshot, lastOp, migrated,
                   startedMigrated, roundTrip, beforeDown>>
    /\ UNCHANGED otherThanMigration

\* dropTable('reply_table', ifExists = true); down returns
DownDropTable ==
    /\ pc = "down_dropTable"
    /\ SetDatabase([Database EXCEPT !.reply_table = <<>>, !.replyTableExists = FALSE,
                                    !.fkReplyRun = FALSE])
    /\ pc' = "idle"
    /\ outcome' = "ok"
    /\ UNCHANGED <<replyMap, nullReplyCount, inTx, snapshot, lastOp, migrated,
                   startedMigrated, roundTrip, beforeDown>>
    /\ UNCHANGED otherThanMigration

NextMigration ==
    \/ UpCreateTable
    \/ UpCreateReplyFk
    \/ UpScan
    \/ UpInsert
    \/ UpUpdate
    \/ UpCheck
    \/ UpChangeColumn
    \/ UpCreateMessageFk
    \/ DownDropFk
    \/ DownChangeColumn
    \/ DownNullOut
    \/ DownDropTable

InitMigration ==
    /\ \E tbl \in UNION { [S -> MessageRows] :
                           S \in {T \in SUBSET MsgIds : Cardinality(T) <= MaxMsgs} } :
          Unmigrated(tbl)
    /\ BootIdle
    /\ AvatarIdle
    /\ ChatIdle

Spec == InitMigration /\ [][NextMigration]_vars

InitBoot ==
    /\ Unmigrated(<<>>)
    /\ BootIdle
    /\ AvatarIdle
    /\ ChatIdle

SpecBoot == InitBoot /\ [][NextBoot]_vars

InitAvatar ==
    /\ Unmigrated(<<>>)
    /\ BootIdle
    /\ AvatarMounted
    /\ ChatIdle

SpecAvatar == InitAvatar /\ [][NextAvatar]_vars

InitChat ==
    /\ Unmigrated(<<>>)
    /\ BootIdle
    /\ AvatarIdle
    /\ ChatIdle

SpecChat == InitChat /\ [][NextChat]_vars

---------------------------------------------------------------------------
(* Properties of the migration *)

UpCompleted == pc = "idle" /\ lastOp = "up" /\ outcome = "ok"
UpFailedWith(err) == pc = "idle" /\ lastOp = "up" /\ outcome = err

\* the message rows as they were when the latest invocation began
pre == snapshot.message_table

IsEmptyReplyId(v) == v = NULL \/ v = ""
GroupKey(id) == IF IsEmptyReplyId(pre[id].replyId) THEN id ELSE pre[id].replyId
Group(key) == {id \in DOMAIN pre : GroupKey(id) = key}
IdPos(id) == CHOOSE i \in 1..Len(MsgIdOrder) : MsgIdOrder[i] = id

\* C1: after a completed up, every message row has a replyId that is neither
\* NULL nor empty and is the replyId of a row of reply_table.
C1_ReferentialIntegrity ==
    UpCompleted =>
        /\ replyTableExists
        /\ \A id \in DOMAIN message_table :
              /\ message_table[id].replyId # NULL
              /\ message_table[id].replyId # ""
              /\ message_table[id].replyId \in DOMAIN reply_table

\* a completed up over rows that mixed empty and non-empty replyId values
C1_Witness ==
    /\ UpCompleted
    /\ \E i \in DOMAIN pre : IsEmptyReplyId(pre[i].replyId)
    /\ \E j \in DOMAIN pre : ~IsEmptyReplyId(pre[j].replyId)

\* C2: after a completed up, a message whose replyId was non-empty keeps it, a
\* message whose replyId was NULL or empty has its own id as replyId, and
\* reply_table has one row per distinct grouping key and no other row.
C2_GroupingKeys ==
    UpCompleted =>
        /\ DOMAIN message_table = DOMAIN pre
        /\ \A id \in DOMAIN pre :
              message_table[id].replyId =
                 (IF IsEmptyReplyId(pre[id].replyId) THEN id ELSE pre[id].replyId)
        /\ DOMAIN reply_table = {GroupKey(id) : id \in DOMAIN pre}

\* a completed up with a kept replyId, a backfilled one, and two messages in one reply
C2_Witness ==
    /\ UpCompleted
    /\ \E i, j \in DOMAIN pre :
          /\ i # j
          /\ GroupKey(i) = GroupKey(j)
          /\ IsEmptyReplyId(pre[i].replyId)
          /\ ~IsEmptyReplyId(pre[j].replyId)
          /\ Cardinality(DOMAIN reply_table) = 1

\* C3 as stated: an up that starts on a schema on which up has completed ends
\* with an error, whatever message_table holds.
C3_SecondUpAlwaysFails ==
    (pc = "idle" /\ lastOp = "up" /\ startedMigrated) => outcome # "ok"

\* C3 amended: an up that starts on a schema on which up has completed ends
\* with an error whenever message_table is not empty.
C3_SecondUpFailsWhenNotEmpty ==
    (pc = "idle" /\ lastOp = "up" /\ startedMigrated /\ DOMAIN pre # {})
        => outcome \in {"fk_exists", "pk_conflict", "parse_error", "integrity_error"}

\* a second up that got as far as the INSERT and failed on the primary key
C3_Witness ==
    /\ UpFailedWith("pk_conflict")
    /\ startedMigrated
    /\ DOMAIN pre # {}

\* C4: an up that follows a down of a migrated database leaves every message
\* with its own id as replyId and one reply row per message; two messages
\* that shared a replyId before the down no longer share one.
C4_RoundTripIsLossy ==
    (UpCompleted /\ roundTrip) =>
        /\ \A id \in DOMAIN message_table : message_table[id].replyId = id
        /\ DOMAIN reply_table = DOMAIN message_table
        /\ \A i, j \in DOMAIN message_table :
              (i # j /\ beforeDown[i].replyId = beforeDown[j].replyId)
                 => message_table[i].replyId # message_table[j].replyId
        /\ (\E i \in DOMAIN beforeDown : beforeDown[i].replyId # i)
              => message_table # beforeDown

\* a completed down-then-up over two messages that shared a replyId
C4_Witness ==
    /\ UpCompleted
    /\ roundTrip
    /\ \E i, j \in DOMAIN beforeDown :
          i # j /\ beforeDown[i].replyId = beforeDown[j].replyId

\* C5 as stated: when up ends on a payload that does not parse, the database
\* is as it was when up began.
C5_ParseFailureRestoresDatabase ==
    UpFailedWith("parse_error") => Database = snapshot

\* C5 amended: when up ends on a payload that does not parse, no reply row was
\* inserted, no message row was modified and message_table's column and
\* foreign key are as before; reply_table and FK_reply_run are as before only
\* when the runner's transaction rolled them back, and exist otherwise.
C5_ParseFailureEffects ==
    UpFailedWith("parse_error") =>
        /\ message_table = snapshot.message_table
        /\ reply_table = snapshot.reply_table
        /\ replyIdNullable = snapshot.replyIdNullable
        /\ fkMessageReply = snapshot.fkMessageReply
        /\ inTx => Database = snapshot
        /\ ~inTx => (replyTableExists /\ fkReplyRun)

\* up ended on a bad payload after a good one was scanned, outside a transaction,
\* on a database that had no reply_table
C5_Witness ==
    /\ UpFailedWith("parse_error")
    /\ ~inTx
    /\ ~snapshot.replyTableExists
    /\ replyTableExists
    /\ \E i, j \in DOMAIN pre :
          IdPos(i) < IdPos(j) /\ pre[i].msg.wellFormed /\ ~pre[j].msg.wellFormed

LastOfGroup(key) ==
    CHOOSE id \in Group(key) : \A j \in Group(key) : IdPos(j) <= IdPos(id)

\* the first message, in scan order, that carries the greatest timestamp of its reply
FirstGreatestOfGroup(key) ==
    CHOOSE id \in Group(key) :
        \A j \in Group(key) :
            /\ ~StrGt(MsgTimestamp(pre[j].msg), MsgTimestamp(pre[id].msg))
            /\ IdPos(j) < IdPos(id)
                  => StrGt(MsgTimestamp(pre[id].msg), MsgTimestamp(pre[j].msg))

\* C10 as stated: every reply row carries the role and name of the last
\* message of its group in scan order.
C10_RoleNameOfLastMessage ==
    UpCompleted =>
        \A key \in DOMAIN reply_table :
            /\ reply_table[key].replyRole = MsgRole(pre[LastOfGroup(key)].msg)
            /\ reply_table[key].replyName = MsgName(pre[LastOfGroup(key)].msg)

\* C10 amended: every reply row carries the role and name of the first message,
\* in scan order, whose timestamp is the greatest of its group.
C10_RoleNameOfGreatestTimestamp ==
    UpCompleted =>
        \A key \in DOMAIN reply_table :
            /\ reply_table[key].replyRole = MsgRole(pre[FirstGreatestOfGroup(key)].msg)
            /\ reply_table[key].replyName = MsgName(pre[FirstGreatestOfGroup(key)].msg)

\* a completed up with a reply whose last message is not the one it takes role from
C10_Witness ==
    /\ UpCompleted
    /\ \E key \in DOMAIN reply_table :
          /\ Cardinality(Group(key)) > 1
          /\ reply_table[key].replyRole # MsgRole(pre[LastOfGroup(key)].msg)

FirstOfGroup(key) ==
    CHOOSE id \in Group(key) : \A j \in Group(key) : IdPos(id) <= IdPos(j)

\* the greatest timestamp, in JavaScript's string order, among the messages of a reply
GreatestTimestampOfGroup(key) ==
    CHOOSE t \in {MsgTimestamp(pre[id].msg) : id \in Group(key)} :
        \A j \in Group(key) : ~StrGt(MsgTimestamp(pre[j].msg), t)

\* C11: after a completed up, every reply row has as createdAt the timestamp of
\* the first message of its group in scan order and as finishedAt the
\* greatest timestamp of the group in string order, so createdAt is never
\* greater than finishedAt.
C11_CreatedAndFinishedAt ==
    UpCompleted =>
        \A key \in DOMAIN reply_table :
            /\ reply_table[key].createdAt = MsgTimestamp(pre[FirstOfGroup(key)].msg)
            /\ reply_table[key].finishedAt = GreatestTimestampOfGroup(key)
            /\ ~StrGt(reply_table[key].createdAt, reply_table[key].finishedAt)

\* a completed up with a reply of two messages whose second timestamp, "9", is
\* greater in string order than the first, "10"
C11_Witness ==
    /\ UpCompleted
    /\ \E key \in DOMAIN reply_table :
          /\ Cardinality(Group(key)) = 2
          /\ reply_table[key].createdAt = T10
          /\ reply_table[key].finishedAt = T9

UpBeforeCheck ==
    lastOp = "up" /\ pc \in {"up_createReplyFk", "up_scan", "up_insert", "up_update", "up_check"}
UpAfterCheck == lastOp = "up" /\ pc \in {"up_changeColumn", "up_createMessageFk"}

\* C12: up changes message_table.replyId to NOT NULL and creates
\* FK_message_reply only after the integrity check counted zero messages
\* with a NULL or empty replyId; when the check counts any, up throws and
\* the column and the foreign key are as they were when up began.
C12_ConstraintsOnlyAfterCheck ==
    /\ UpBeforeCheck =>
          /\ replyIdNullable = snapshot.replyIdNullable
          /\ fkMessageReply = snapshot.fkMessageReply
    /\ UpAfterCheck => CountEmptyReplyIds(message_table) = 0
    /\ (lastOp = "up" /\ pc = "up_changeColumn") =>
          /\ replyIdNullable = snapshot.replyIdNullable
          /\ fkMessageReply = snapshot.fkMessageReply
    /\ (lastOp = "up" /\ pc = "up_createMessageFk") =>
          /\ ~replyIdNullable
          /\ fkMessageReply = snapshot.fkMessageReply
    /\ UpCompleted =>
          /\ CountEmptyReplyIds(message_table) = 0
          /\ ~replyIdNullable
          /\ fkMessageReply
    /\ UpFailedWith("integrity_error") =>
          /\ CountEmptyReplyIds(message_table) > 0
          /\ replyIdNullable = snapshot.replyIdNullable
          /\ fkMessageReply = snapshot.fkMessageReply

\* up threw at the integrity check outside a transaction, after the backfill
\* had run, and the column is still nullable and without its foreign key
C12_Witness ==
    /\ UpFailedWith("integrity_error")
    /\ ~inTx
    /\ message_table # pre
    /\ replyIdNullable
    /\ ~fkMessageReply

DownCompleted == pc = "idle" /\ lastOp = "down" /\ outcome = "ok"

\* C13: after a completed down of a migrated database the foreign key on
\* replyId is absent, the column is nullable, every replyId is NULL and
\* reply_table does not exist, while id, run_id and msg of every message row
\* are as before; the foreign key is gone before the column is relaxed and
\* the values are NULL before reply_table is dropped.
C13_DownPostState ==
    (lastOp = "down" /\ startedMigrated) =>
        /\ DOMAIN message_table = DOMAIN beforeDown
        /\ \A id \in DOMAIN message_table :
              /\ message_table[id].run_id = beforeDown[id].run_id
              /\ message_table[id].msg = beforeDown[id].msg
        /\ ~fkMessageReply
        /\ pc = "down_changeColumn" =>
              /\ ~replyIdNullable
              /\ message_table = beforeDown
              /\ replyTableExists
        /\ pc = "down_nullOut" =>
              /\ replyIdNullable
              /\ message_table = beforeDown
              /\ replyTableExists
        /\ pc = "down_dropTable" =>
              /\ replyIdNullable
              /\ \A id \in DOMAIN message_table : message_table[id].replyId = NULL
              /\ replyTableExists
              /\ reply_table = snapshot.reply_table
        /\ DownCompleted =>
              /\ replyIdNullable
              /\ \A id \in DOMAIN message_table : message_table[id].replyId = NULL
              /\ ~replyTableExists
              /\ reply_table = <<>>

\* a completed down of a migrated database that held two messages of one reply
C13_Witness ==
    /\ DownCompleted
    /\ startedMigrated
    /\ \E i, j \in DOMAIN beforeDown :
          i # j /\ beforeDown[i].replyId = beforeDown[j].replyId
    /\ snapshot.reply_table # <<>>

\* C20 as stated: after a completed up, the reply row a message references
\* has the run_id of the message.
C20_ReplyRunIsMessageRun ==
    UpCompleted =>
        \A id \in DOMAIN message_table :
            reply_table[message_table[id].replyId].run_id = message_table[id].run_id

---------------------------------------------------------------------------
(* Properties of initializeDatabase *)

\* C6: the awaited calls start in the order initialize, updateRunStatusAtBeginning,
\* updateInputRequests, each after the one before it resolved; when a call
\* rejects, the error is logged, no further call starts, and
\* initializeDatabase rejects with that error.
C6_BootOrder ==
    /\ Len(calls) <= Len(BootSteps)
    /\ \A i \in 1..Len(calls) : calls[i] = BootSteps[i]
    /\ Len(resolved) <= Len(calls)
    /\ Len(calls) <= Len(resolved) + 1
    /\ \A i \in 1..Len(resolved) : resolved[i] = calls[i]
    /\ thrown # "none" =>
          /\ bootPc = "settled"
          /\ rejection = thrown
          /\ Len(calls) = Len(resolved) + 1
          /\ consoleLog[Len(consoleLog)] = <<"error", "Error initializing database", thrown>>
    /\ rejection # "none" => thrown = rejection
    /\ (bootPc = "settled" /\ thrown = "none") => resolved = BootSteps

\* the second call rejected after the first had resolved
C6_Witness ==
    /\ thrown = "E2"
    /\ calls = <<BootSteps[1], BootSteps[2]>>
    /\ resolved = <<BootSteps[1]>>
    /\ rejection = "E2"

---------------------------------------------------------------------------
(* Properties of AsAvatar *)

\* C7 as stated: whenever the renderAvatar callback returns a value other than
\* null, that value is what AsAvatar displays, whatever the role, the
\* randomAvatar flag and the state of the avatar loads.
C7_CustomAvatarShown ==
    (renderAvatar \notin {"absent", "null"})
        => (avatarComponent.kind = "custom" /\ avatarComponent.node = renderAvatar)

\* h * 31 + char modulo 2^32
Times31Plus(w, char) ==
    LET lo == w.lo * 31 + char
        hi == w.hi * 31 + (lo \div Half)
    IN  Word(hi % Half, lo % Half)

\* the fold h := seed; h := h * 31 + charCode, as a signed 32-bit value in two's complement
RECURSIVE Fold31(_, _)
Fold31(w, str) ==
    IF str = <<>> THEN w ELSE Fold31(Times31Plus(w, Head(str)), Tail(str))

\* the magnitude of a two's complement word, between 0 and 2^31
Magnitude(w) == IF w.hi >= 32768 THEN Negate(w) ELSE w

\* m mod n for a magnitude m of at most 2^31 and 0 < n < 2^15
MagnitudeMod(w, n) == ((w.hi % n) * Half + w.lo) % n

\* C14: hashString(name, seed) is the absolute value of the signed 32-bit
\* wraparound fold h := seed; h := h * 31 + charCode, an integer between 0
\* and 2^31; getAvatarPathByName is the element of AVATAR_PATHS at index
\* hash mod length when AVATAR_PATHS is not empty, and "" when it is.
C14_HashAndIndex ==
    LET h == hashString(name, seed)
        n == Len(AVATAR_PATHS)
    IN  /\ h = Magnitude(Fold31(ToWord(seed), name))
        /\ h.hi \in 0..32768
        /\ h.lo \in 0..(Half - 1)
        /\ h.hi = 32768 => h.lo = 0
        /\ n > 0 =>
              /\ MagnitudeMod(h, n) \in 0..(n - 1)
              /\ getAvatarPathByName(AVATAR_PATHS, name, seed)
                    = AVATAR_PATHS[MagnitudeMod(h, n) + 1]
        /\ n = 0 => getAvatarPathByName(AVATAR_PATHS, name, seed) = ""

\* "bob" with seed 2^31 - 1: the fold wraps to -2147415722, the hash is
\* 2147415722 = 32766 * 2^16 + 63146 and selects index 2 of three assets, which
\* the effect has started to load
C14_Witness ==
    /\ name = <<98, 111, 98>>
    /\ seed = 2147483647
    /\ Len(AVATAR_PATHS) = 3
    /\ Fold31(ToWord(seed), name).hi >= 32768
    /\ hashString(name, seed) = Word(32766, 63146)
    /\ getAvatarPathByName(AVATAR_PATHS, name, seed) = AVATAR_PATHS[3]
    /\ loads # <<>>
    /\ loads[Len(loads)] = AVATAR_PATHS[3]

\* the asset getAvatarPathByName selects for the current props
selectedAvatar == getAvatarPathByName(AVATAR_PATHS, name, seed)

\* C15 as stated: without a custom avatar, a 'system' role shows the system
\* avatar; any other role shows the random avatar only when randomAvatar is
\* on and the asset selected for the current name and seed is the loaded
\* one, and shows the initials whenever randomAvatar is off or that asset is
\* not loaded.
C15_AvatarPrecedence ==
    renderAvatar \in {"absent", "null"} =>
        IF toLowerCase(role) = "system"
        THEN avatarComponent.kind = "system"
        ELSE LET loaded == /\ randomAvatar
                           /\ selectedAvatar # ""
                           /\ AvatarComponent = selectedAvatar
             IN  /\ avatarComponent.kind = "random" =>
                       (loaded /\ avatarComponent.node = selectedAvatar)
                 /\ ~loaded =>
                       /\ avatarComponent.kind = "initials"
                       /\ avatarComponent.text = Initials(name)

\* C16: a load that resolves is applied to the state whatever the props are
\* by then and whether or not a load started after it has resolved before it.
C16_StaleLoadApplied ==
    lastLoad.event = "resolved" => AvatarComponent = lastLoad.path

\* two loads resolved out of order, the earlier one last: the random avatar
\* on display is the earlier load's, not the one selected for the current props
C16_Witness ==
    /\ lastLoad.event = "resolved"
    /\ lastLoad.overtaken
    /\ loads = <<>>
    /\ renderAvatar = "absent"
    /\ avatarComponent.kind = "random"
    /\ avatarComponent.node = lastLoad.path
    /\ selectedAvatar # ""
    /\ avatarComponent.node # selectedAvatar

---------------------------------------------------------------------------
(* Properties of AsChat *)

\* C8: right after a reply was appended, scrollTop is scrollHeight - clientHeight
\* when isAtBottom is true, and is what it was before the reply when
\* isAtBottom is false.
C8_AutoScroll ==
    lastChatEvent = "append" =>
        IF isAtBottom
        THEN scrollTop = scrollHeight - clientHeight
        ELSE scrollTop = prevScrollTop

\* a reply was appended while the user was away from the bottom of an overflowing list
C8_Witness ==
    /\ lastChatEvent = "append"
    /\ ~isAtBottom
    /\ scrollTop = prevScrollTop
    /\ scrollHeight - clientHeight - scrollTop >= 50

\* C17: isAtBottom is true when the component is mounted; a scroll event
\* sets it to whether scrollHeight - scrollTop - clientHeight is below 50 and
\* nothing else changes it; the scroll-to-bottom button is hidden exactly
\* when it is true; while it is false a reply that arrives leaves scrollTop
\* where it is.
C17_Step ==
    /\ lastChatEvent' = "handleScroll" =>
          /\ isAtBottom' <=> (scrollHeight - scrollTop - clientHeight < 50)
          /\ isAtBottom' <=> (scrollHeight' - scrollTop' - clientHeight' < 50)
    /\ isAtBottom' # isAtBottom => lastChatEvent' = "handleScroll"
    /\ (~isAtBottom /\ replies' # replies) => (scrollTop' = scrollTop /\ ~isAtBottom')

RECURSIVE MessageCount(_)
MessageCount(list) ==
    IF list = <<>> THEN 0 ELSE Len(Head(list).messages) + MessageCount(Tail(list))

renderedReplies == organizedReplies(replies, byReplyId)

\* C18: with 'By reply Id' on the rendered list is the replies prop; with it
\* off the rendered list has one entry per message, in reply order then
\* message order, holding that message alone with the message's id, name,
\* role and timestamp as replyId, replyName, replyRole, createdAt and
\* finishedAt. The replies prop is not modified by either mode, so the list
\* rendered after the mode was toggled off and on again is the replies prop.
C18_DisplayModes ==
    /\ byReplyId => renderedReplies = replies
    /\ ~byReplyId =>
          /\ Len(renderedReplies) = MessageCount(replies)
          /\ \A i \in 1..Len(replies) : \A j \in 1..Len(replies[i].messages) :
                LET entry == renderedReplies[MessageCount(SubSeq(replies, 1, i - 1)) + j]
                    msg == replies[i].messages[j]
                IN  /\ entry.replyId = msg.id
                    /\ entry.replyName = msg.name
                    /\ entry.replyRole = msg.role
                    /\ entry.createdAt = msg.timestamp
                    /\ entry.finishedAt = msg.timestamp
                    /\ entry.messages = <<msg>>

\* the mode was toggled to flattened over a reply of two messages after a reply of one
C18_Witness ==
    /\ lastChatEvent = "toggle"
    /\ ~byReplyId
    /\ Len(replies) = 2
    /\ Len(replies[1].messages) = 1
    /\ Len(replies[2].messages) = 2
    /\ Len(renderedReplies) = 3

\* C19 as stated: an activation of the action button while it is in
\* 'interrupt' mode does not invoke onSendClick.
C19_InterruptNeverSends ==
    lastClick.actionType = "interrupt" => lastClick.called # "onSendClick"

====
